---- MODULE Spec2Model ----
(***************************************************************************)
(* Model of cpp/verilator_tests/counter.cc: the gtest case                 *)
(* CounterTest.count16 driving the Verilator model VCounter of a 3-bit     *)
(* wraparound counter.  The test body is modelled statement by statement   *)
(* (pc names the next statement); the device itself (VCounter::eval) is    *)
(* generated from the repository's Chisel source, which is not part of     *)
(* counter.cc, and is modelled from the specification: a register with a   *)
(* synchronous reset that counts rising clock edges modulo 2^width.        *)
(***************************************************************************)
EXTENDS Integers, Sequences, FiniteSets, TLC

VARIABLES
  pc,        \* the next statement of the test body
  i,         \* loop variable of the reset loop (line 40) / test loop (line 43)
  k,         \* loop variable of the loop inside clock_step (line 29)
  ret,       \* where the running clock_step call returns to
  time,      \* contextp->time()
  dut,       \* the VCounter instance: its signal fields and internal state
  tfp,       \* the VerilatedVcdC trace sink: "none", "open" or "closed"
  waveon,    \* whether the file was compiled with WAVEON defined
  width,     \* the counter width of the device the test is linked against
  xinit,     \* what the device's constructor leaves in the signals
  finalized, \* dut->final() has run
  failures,  \* number of EXPECT_EQ failures gtest recorded
  outcome,   \* gtest's verdict: "running", "passed", "failed"
  trace,     \* history: every operation of the running test, in order
  run,       \* history: how many times the test body was started
  prevTrace, \* history: trace of the previous complete run
  prevOutcome, \* history: outcome of the previous complete run
  prevWaveon,  \* history: waveon of the previous complete run
  held,      \* history (driver): consecutive clock steps with reset = 1
  heldFrom,  \* history (driver): counter value when reset was asserted
  steps,     \* history (driver): clock steps performed
  stepFrom   \* history (driver): io_out and reset when the last step began

vars == <<pc, i, k, ret, time, dut, tfp, waveon, width, xinit, finalized,
          failures, outcome, trace, run, prevTrace, prevOutcome, prevWaveon,
          held, heldFrom, steps, stepFrom>>

prog == <<pc, i, k, ret, tfp, finalized, failures, outcome>>
hist == <<run, prevTrace, prevOutcome, prevWaveon>>
drv  == <<held, heldFrom, steps, stepFrom>>
cfg  == <<waveon, width, xinit>>

----------------------------------------------------------------------------
(* Bounds of the model *)

MaxWidth == 4        \* widths of the devices SpecWidths links the test against
MaxRuns == 2         \* how often SpecTwice runs the test body
MaxDriveSteps == 20  \* how many clock steps SpecDrive performs

(* Constants of the program *)

ResetSteps == 10     \* line 40: for(int i=0;i<10;++i)
TestSteps == 16      \* line 43: for(int i=1;i<=16;++i)
ExpectBits == 3      \* line 47: i%(1<<3)
CounterBits == 3     \* the device of the repository: a 3-bit counter

\* the loop of clock_step written as for(int i=0;i<1;++i)
LastHalf_short == 1 - 1

LastHalf == 1        \* line 29: for(int i=0;i<=1;++i)

----------------------------------------------------------------------------
(* The device *)

Bit == {0, 1}

\* The signals and the internal state of a device of width w.
DutStates(w) ==
  [clock : Bit, reset : Bit, io_out : 0 .. (2^w - 1), reg : 0 .. (2^w - 1),
   clkLast : Bit]

\* What a constructor may leave behind: every signal holds some value of its
\* width; io_out is the wire of the register.
FreshStates(w) == {d \in DutStates(w) : d.io_out = d.reg}

\* dut->eval(): on a rising edge of clock (clock is 1 and was 0 at the
\* previous eval) the register takes 0 if reset is 1 and its successor modulo
\* 2^w otherwise; io_out shows the register.
DutEval(d, w) ==
  LET edge == d.clock = 1 /\ d.clkLast = 0
      r == IF edge THEN (IF d.reset = 1 THEN 0 ELSE (d.reg + 1) % (2^w))
                   ELSE d.reg
  IN [d EXCEPT !.reg = r, !.io_out = r, !.clkLast = d.clock]

----------------------------------------------------------------------------
(* The statements of the test body *)

\* line 17: a new VerilatedContext starts at time 0
NewContextTime == 0

\* the test running on the device the previous run left behind
NewDut_reused == dut

\* line 18: std::make_unique<VCounter>()
NewDut == xinit

\* timeInc forgotten
TimeInc_none(t) == t

\* line 30: contextp->timeInc(1)
TimeInc(t) == t + 1

\* the clock written as a constant 0
ClockLevel_low(h) == 0

\* the clock driven high in the first half-cycle and low in the second
ClockLevel_inverted(h) == 1 - h

\* line 31: dut->clock = i
ClockLevel(h) == h

\* the sample stamped with a constant
DumpStamp_zero(t) == 0

\* line 34: the stamp of dump(contextp->time())
DumpStamp(t) == t

\* line 47: the expected value i%(1<<3)
Expected(n) == n % (2^ExpectBits)

\* ASSERT_EQ in place of EXPECT_EQ: the body returns at the first mismatch
ExpectNext_fatal(ok) == IF ok THEN "test_loop" ELSE "return"

\* line 47: EXPECT_EQ is non-fatal, the loop goes on whatever the comparison
ExpectNext(ok) == "test_loop"

\* lines 20-26: the first statement after construction
FirstPc(w) == IF w THEN "trace_open" ELSE "reset_assert"

\* lines 50-53: the first statement after the test loop
AfterLoopPc(w) == IF w THEN "trace_close" ELSE "final"

\* lines 33-35: the statement after dut->eval() inside clock_step
AfterEvalPc(w) == IF w THEN "cs_dump" ELSE "cs_next"

\* One entry of the history: the operation, and the context time, the loop
\* index and the device's signals right after it.
Event(op, t, n, d) ==
  [op |-> op, t |-> t, i |-> n, clk |-> d.clock, rst |-> d.reset,
   out |-> d.io_out]

Log(op, t, n, d) == trace' = Append(trace, Event(op, t, n, d))

\* The state after lines 17-18, for a device of one of the widths ws.
InitFor(ws) ==
  /\ waveon \in BOOLEAN
  /\ width \in ws
  /\ xinit \in FreshStates(width)
  /\ dut = xinit
  /\ time = NewContextTime
  /\ pc = FirstPc(waveon)
  /\ i = 0 /\ k = 0 /\ ret = "none"
  /\ tfp = "none"
  /\ finalized = FALSE /\ failures = 0 /\ outcome = "running"
  /\ trace = << >>
  /\ run = 1 /\ prevTrace = << >> /\ prevOutcome = "running"
  /\ prevWaveon = FALSE
  /\ held = 0 /\ heldFrom = 0 /\ steps = 0
  /\ stepFrom = [out |-> 0, rst |-> 1]

Init == InitFor({CounterBits})

\* lines 20-26 (WAVEON): tfp->open("wave.vcd")
TraceOpen ==
  /\ pc = "trace_open"
  /\ tfp' = "open"
  /\ pc' = "reset_assert"
  /\ Log("open", time, i, dut)
  /\ UNCHANGED <<i, k, ret, time, dut, finalized, failures, outcome>>
  /\ UNCHANGED <<cfg, hist, drv>>

\* line 39: dut->reset = 1, and the start of the reset loop (int i=0)
ResetAssert ==
  /\ pc = "reset_assert"
  /\ dut' = [dut EXCEPT !.reset = 1]
  /\ i' = 0
  /\ pc' = "reset_loop"
  /\ Log("rst", time, 0, dut')
  /\ UNCHANGED <<k, ret, time, tfp, finalized, failures, outcome>>
  /\ UNCHANGED <<cfg, hist, drv>>

\* line 40: the loop test i<10 and the call of clock_step
ResetLoop ==
  /\ pc = "reset_loop"
  /\ IF i < ResetSteps
       THEN /\ pc' = "cs_loop" /\ k' = 0 /\ ret' = "reset_next"
            /\ Log("call", time, i, dut)
       ELSE /\ pc' = "reset_deassert" /\ UNCHANGED <<k, ret, trace>>
  /\ UNCHANGED <<i, time, dut, tfp, finalized, failures, outcome>>
  /\ UNCHANGED <<cfg, hist, drv>>

\* line 40: ++i
ResetNext ==
  /\ pc = "reset_next"
  /\ i' = i + 1
  /\ pc' = "reset_loop"
  /\ UNCHANGED <<k, ret, time, dut, tfp, finalized, failures, outcome, trace>>
  /\ UNCHANGED <<cfg, hist, drv>>

\* line 29: the loop test i<=1 inside clock_step, and the return
CsLoop ==
  /\ pc = "cs_loop"
  /\ IF k <= LastHalf
       THEN pc' = "cs_timeinc" /\ UNCHANGED <<ret, trace>>
       ELSE pc' = ret /\ ret' = "none" /\ Log("ret", time, i, dut)
  /\ UNCHANGED <<i, k, time, dut, tfp, finalized, failures, outcome>>
  /\ UNCHANGED <<cfg, hist, drv>>

\* line 30: contextp->timeInc(1)
CsTimeInc ==
  /\ pc = "cs_timeinc"
  /\ time' = TimeInc(time)
  /\ pc' = "cs_clock"
  /\ Log("inc", time', i, dut)
  /\ UNCHANGED <<i, k, ret, dut, tfp, finalized, failures, outcome>>
  /\ UNCHANGED <<cfg, hist, drv>>

\* line 31: dut->clock = i
CsSetClock ==
  /\ pc = "cs_clock"
  /\ dut' = [dut EXCEPT !.clock = ClockLevel(k)]
  /\ pc' = "cs_eval"
  /\ Log("clk", time, i, dut')
  /\ UNCHANGED <<i, k, ret, time, tfp, finalized, failures, outcome>>
  /\ UNCHANGED <<cfg, hist, drv>>

\* line 32: dut->eval()
CsEval ==
  /\ pc = "cs_eval"
  /\ dut' = DutEval(dut, width)
  /\ pc' = AfterEvalPc(waveon)
  /\ Log("eval", time, i, dut')
  /\ UNCHANGED <<i, k, ret, time, tfp, finalized, failures, outcome>>
  /\ UNCHANGED <<cfg, hist, drv>>

\* the time advance moved into the WAVEON block
CsDump_advancesTime ==
  /\ pc = "cs_dump"
  /\ pc' = "cs_next"
  /\ time' = time + 1
  /\ Log("dump", time', i, dut)
  /\ UNCHANGED <<i, k, ret, dut, tfp, finalized, failures, outcome>>
  /\ UNCHANGED <<cfg, hist, drv>>

\* lines 33-35 (WAVEON): tfp->dump(contextp->time())
CsDump ==
  /\ pc = "cs_dump"
  /\ pc' = "cs_next"
  /\ Log("dump", DumpStamp(time), i, dut)
  /\ UNCHANGED <<i, k, ret, time, dut, tfp, finalized, failures, outcome>>
  /\ UNCHANGED <<cfg, hist, drv>>

\* line 29: ++i of the loop inside clock_step
CsNext ==
  /\ pc = "cs_next"
  /\ k' = k + 1
  /\ pc' = "cs_loop"
  /\ UNCHANGED <<i, ret, time, dut, tfp, finalized, failures, outcome, trace>>
  /\ UNCHANGED <<cfg, hist, drv>>

\* reset left asserted for the test loop
ResetDeassert_keepsReset ==
  /\ pc = "reset_deassert"
  /\ dut' = [dut EXCEPT !.reset = 1]
  /\ i' = 1
  /\ pc' = "test_loop"
  /\ Log("rst", time, 1, dut')
  /\ UNCHANGED <<k, ret, time, tfp, finalized, failures, outcome>>
  /\ UNCHANGED <<cfg, hist, drv>>

\* line 42: dut->reset = 0, and the start of the test loop (int i=1)
ResetDeassert ==
  /\ pc = "reset_deassert"
  /\ dut' = [dut EXCEPT !.reset = 0]
  /\ i' = 1
  /\ pc' = "test_loop"
  /\ Log("rst", time, 1, dut')
  /\ UNCHANGED <<k, ret, time, tfp, finalized, failures, outcome>>
  /\ UNCHANGED <<cfg, hist, drv>>

\* lines 43-45: the loop test i<=16 and the call of clock_step
TestLoop ==
  /\ pc = "test_loop"
  /\ IF i <= TestSteps
       THEN /\ pc' = "cs_loop" /\ k' = 0 /\ ret' = "test_eval"
            /\ Log("call", time, i, dut)
       ELSE /\ pc' = AfterLoopPc(waveon) /\ UNCHANGED <<k, ret, trace>>
  /\ UNCHANGED <<i, time, dut, tfp, finalized, failures, outcome>>
  /\ UNCHANGED <<cfg, hist, drv>>

\* a time advance before the extra evaluation
TestEval_withTimeInc ==
  /\ pc = "test_eval"
  /\ time' = time + 1
  /\ dut' = DutEval(dut, width)
  /\ pc' = "expect"
  /\ Log("xeval", time', i, dut')
  /\ UNCHANGED <<i, k, ret, tfp, finalized, failures, outcome>>
  /\ UNCHANGED <<cfg, hist, drv>>

\* line 46: dut->eval()
TestEval ==
  /\ pc = "test_eval"
  /\ dut' = DutEval(dut, width)
  /\ pc' = "expect"
  /\ Log("xeval", time, i, dut')
  /\ UNCHANGED <<i, k, ret, time, tfp, finalized, failures, outcome>>
  /\ UNCHANGED <<cfg, hist, drv>>

\* line 47: EXPECT_EQ(int(dut->io_out), i%(1<<3)), then ++i (line 43)
Expect ==
  /\ pc = "expect"
  /\ LET ok == dut.io_out = Expected(i)
     IN /\ failures' = IF ok THEN failures ELSE failures + 1
        /\ pc' = ExpectNext(ok)
        /\ Log(IF ok THEN "pass" ELSE "fail", time, i, dut)
  /\ i' = i + 1
  /\ UNCHANGED <<k, ret, time, dut, tfp, finalized, outcome>>
  /\ UNCHANGED <<cfg, hist, drv>>

\* lines 50-52 (WAVEON): tfp->close()
TraceClose ==
  /\ pc = "trace_close"
  /\ tfp' = "closed"
  /\ pc' = "final"
  /\ Log("close", time, i, dut)
  /\ UNCHANGED <<i, k, ret, time, dut, finalized, failures, outcome>>
  /\ UNCHANGED <<cfg, hist, drv>>

\* line 53: dut->final()
Final ==
  /\ pc = "final"
  /\ finalized' = TRUE
  /\ pc' = "return"
  /\ Log("final", time, i, dut)
  /\ UNCHANGED <<i, k, ret, time, dut, tfp, failures, outcome>>
  /\ UNCHANGED <<cfg, hist, drv>>

\* line 54: the test body returns; gtest marks the test failed if a failure
\* was recorded
Return ==
  /\ pc = "return"
  /\ outcome' = IF failures = 0 THEN "passed" ELSE "failed"
  /\ pc' = "done"
  /\ UNCHANGED <<i, k, ret, time, dut, tfp, finalized, failures, trace>>
  /\ UNCHANGED <<cfg, hist, drv>>

Next ==
  \/ TraceOpen
  \/ ResetAssert
  \/ ResetLoop
  \/ ResetNext
  \/ CsLoop
  \/ CsTimeInc
  \/ CsSetClock
  \/ CsEval
  \/ CsDump
  \/ CsNext
  \/ ResetDeassert
  \/ TestLoop
  \/ TestEval
  \/ Expect
  \/ TraceClose
  \/ Final
  \/ Return

Spec == Init /\ [][Next]_vars

----------------------------------------------------------------------------
(* The test linked against a counter of another width *)

InitWidths == InitFor(1 .. MaxWidth)

SpecWidths == InitWidths /\ [][Next]_vars

----------------------------------------------------------------------------
(* The test body run again on a newly constructed context and device, with *)
(* or without WAVEON                                                       *)

\* lines 16-18 once more: the previous run is kept for comparison
Rerun ==
  /\ pc = "done"
  /\ run < MaxRuns
  /\ run' = run + 1
  /\ prevTrace' = trace /\ prevOutcome' = outcome /\ prevWaveon' = waveon
  /\ waveon' \in BOOLEAN
  /\ dut' = NewDut
  /\ time' = NewContextTime
  /\ pc' = FirstPc(waveon')
  /\ i' = 0 /\ k' = 0 /\ ret' = "none"
  /\ tfp' = "none"
  /\ finalized' = FALSE /\ failures' = 0 /\ outcome' = "running"
  /\ trace' = << >>
  /\ UNCHANGED <<width, xinit, drv>>

NextTwice == Next \/ Rerun

\* The repository's device and a narrower one, so that both verdicts occur.
InitTwice == InitFor({CounterBits - 1, CounterBits})

SpecTwice == InitTwice /\ [][NextTwice]_vars

----------------------------------------------------------------------------
(* The device driven through clock_step by an arbitrary caller *)

\* lines 30-32 for one value h of the loop variable, on the device
HalfCycle(d, h, w) == DutEval([d EXCEPT !.clock = ClockLevel(h)], w)

\* lines 29-36: the device after the loop of clock_step, from loop value h
RECURSIVE StepDutFrom(_, _, _)
StepDutFrom(d, h, w) ==
  IF h <= LastHalf THEN StepDutFrom(HalfCycle(d, h, w), h + 1, w) ELSE d

\* lines 29-36: the context time after the loop of clock_step
RECURSIVE StepTimeFrom(_, _)
StepTimeFrom(t, h) ==
  IF h <= LastHalf THEN StepTimeFrom(TimeInc(t), h + 1) ELSE t

InitDrive ==
  /\ InitFor({CounterBits})
  /\ waveon = FALSE

\* dut->reset = v by the caller, between two calls of clock_step (as lines 39
\* and 42 do); the caller stands where the test body stands after construction
DriveReset ==
  /\ pc = "reset_assert"
  /\ \E v \in Bit :
       /\ v # dut.reset
       /\ dut' = [dut EXCEPT !.reset = v]
       /\ held' = 0
       /\ heldFrom' = dut.reg
  /\ UNCHANGED <<prog, time, cfg, hist, trace, steps, stepFrom>>

\* lines 28-37: one call of clock_step
DriveStep ==
  /\ pc = "reset_assert"
  /\ steps < MaxDriveSteps
  /\ dut' = StepDutFrom(dut, 0, width)
  /\ time' = StepTimeFrom(time, 0)
  /\ steps' = steps + 1
  /\ held' = IF dut.reset = 1 THEN held + 1 ELSE 0
  /\ stepFrom' = [out |-> dut.io_out, rst |-> dut.reset]
  /\ UNCHANGED <<prog, cfg, hist, trace, heldFrom>>

NextDrive == DriveReset \/ DriveStep

SpecDrive == InitDrive /\ [][NextDrive]_vars

----------------------------------------------------------------------------
(* Reading the history *)

Last == trace[Len(trace)]

\* the operations of a piece of history, in order
Ops(s) == [n \in 1 .. Len(s) |-> s[n].op]

\* the entries of a history whose operation is one of ops
Only(s, ops) == SelectSeq(s, LAMBDA e : e.op \in ops)

\* the index of the last call of clock_step in the history
LastCall ==
  LET S == {n \in 1 .. Len(trace) : trace[n].op = "call"}
  IN CHOOSE n \in S : \A m \in S : m <= n

----------------------------------------------------------------------------
(* C1: in count16, after the reset phase and with reset at 0, the value    *)
(* of io_out compared at functional step i is i mod 8, for every i in      *)
(* 1..16: 1 at step 1, 0 at steps 8 and 16.                                *)

C1_OutputIsStepMod8 ==
  /\ pc = "expect" =>
       /\ i \in 1 .. 16
       /\ dut.reset = 0
       /\ dut.io_out = i % 8
       /\ (i = 1 => dut.io_out = 1)
       /\ (i \in {8, 16} => dut.io_out = 0)
  /\ pc = "done" => Len(Only(trace, {"pass", "fail"})) = 16

C1_Witness ==
  /\ pc = "expect" /\ i = 16 /\ dut.io_out = 0
  /\ xinit.reg = 5
  /\ Len(Only(trace, {"pass"})) = 15

----------------------------------------------------------------------------
(* C2: whatever the counter value and clock level before, after reset has  *)
(* been held at 1 across 10 or more consecutive clock steps the register   *)
(* and io_out are 0; nothing fails on the way.                             *)

C2_ResetPostcondition ==
  held >= 10 => dut.reg = 0 /\ dut.io_out = 0 /\ failures = 0

\* the same at the end of the reset phase of count16 (line 41)
ResetPhaseDone ==
  pc = "reset_deassert" =>
    dut.reg = 0 /\ dut.io_out = 0 /\ dut.reset = 1 /\ failures = 0

C2_Witness ==
  /\ held >= 10 /\ heldFrom = 7 /\ steps > held
  /\ dut.reg = 0 /\ dut.io_out = 0

----------------------------------------------------------------------------
(* C3: io_out is always within 0..7, after any number of clock steps and   *)
(* with reset at 0 or 1, and a clock step from 7 with reset at 0 gives 0.  *)

C3_Wraparound ==
  /\ dut.io_out \in 0 .. 7
  /\ dut.reg \in 0 .. 7
  /\ (steps > 0 /\ stepFrom.out = 7 /\ stepFrom.rst = 0) => dut.io_out = 0

C3_Witness ==
  /\ steps > 16
  /\ stepFrom.out = 7 /\ stepFrom.rst = 0 /\ dut.io_out = 0

----------------------------------------------------------------------------
(* C4: a call of clock_step is exactly: time advance by 1, clock := 0,     *)
(* evaluate, time advance by 1, clock := 1, evaluate.  It adds 2 to the    *)
(* context time; the time never decreases; each evaluation of a clock step *)
(* is at a later time than the clock-step evaluation before it.            *)

C4_CallShape ==
  /\ (trace # << >> /\ Last.op = "ret") =>
       LET c == LastCall
           w == Only(SubSeq(trace, c, Len(trace)),
                     {"call", "inc", "clk", "eval", "xeval", "rst", "pass",
                      "fail", "ret", "final"})
           t0 == trace[c].t
       IN /\ Ops(w) = <<"call", "inc", "clk", "eval", "inc", "clk", "eval",
                        "ret">>
          /\ w[2].t = t0 + 1 /\ w[3].t = t0 + 1 /\ w[3].clk = 0
          /\ w[4].t = t0 + 1 /\ w[4].clk = 0
          /\ w[5].t = t0 + 2 /\ w[6].t = t0 + 2 /\ w[6].clk = 1
          /\ w[7].t = t0 + 2 /\ w[7].clk = 1
          /\ time = t0 + 2
  /\ (trace # << >> /\ Last.op = "eval") =>
       /\ Last.t = time
       /\ \A n \in 1 .. (Len(trace) - 1) :
            trace[n].op = "eval" => trace[n].t < Last.t

\* C4: the shape above after every step, and the time never decreasing
C4_ClockStep == [][time' >= time /\ C4_CallShape']_vars

C4_Witness ==
  /\ pc = "test_eval" /\ i = 16 /\ Last.op = "ret"
  /\ time = 52
  /\ Len(Only(trace, {"inc"})) = 52 /\ Len(Only(trace, {"eval"})) = 52

----------------------------------------------------------------------------
(* C5: a mismatch of EXPECT_EQ does not abort: it is recorded, every one   *)
(* of the 16 steps still does its clock step, evaluation and comparison,   *)
(* dut->final() still runs, and the test is marked failed exactly when one *)
(* of the 16 comparisons mismatched.                                       *)

C5_NonAborting ==
  LET cmp == Only(trace, {"pass", "fail"})
  IN /\ failures = Len(Only(trace, {"fail"}))
     /\ \A n \in 1 .. Len(cmp) :
          /\ cmp[n].i = n
          /\ cmp[n].op = "fail" <=> cmp[n].out # n % 8
     /\ pc # "done" => outcome = "running" /\ ENABLED Next
     /\ pc = "done" =>
          /\ Len(cmp) = 16
          /\ Len(Only(trace, {"call"})) = 10 + 16
          /\ Len(Only(trace, {"xeval"})) = 16
          /\ finalized /\ Last.op = "final"
          /\ outcome \in {"passed", "failed"}
          /\ outcome = "failed" <=> \E n \in 1 .. 16 : cmp[n].op = "fail"

C5_Witness ==
  LET cmp == Only(trace, {"pass", "fail"})
  IN /\ pc = "done" /\ outcome = "failed" /\ finalized
     /\ Len(cmp) = 16
     /\ cmp[8].op = "fail" /\ cmp[16].op = "pass"

----------------------------------------------------------------------------
(* C6: a run compiled with WAVEON and a run compiled without it perform    *)
(* the same operations apart from those on the trace sink: the same clock  *)
(* and reset values, the same times, the same evaluations in the same      *)
(* order, the same io_out at each of the 16 comparisons.                   *)

\* the operations on the trace sink
SinkOps == {"open", "dump", "close"}

\* a history without the operations on the trace sink
Strip(s) == SelectSeq(s, LAMBDA e : e.op \notin SinkOps)

C6_TracingIsTransparent ==
  (pc = "done" /\ run > 1 /\ waveon # prevWaveon) =>
     /\ Strip(trace) = Strip(prevTrace)
     /\ outcome = prevOutcome

C6_Witness ==
  /\ pc = "done" /\ run = 2 /\ waveon /\ ~prevWaveon
  /\ Len(Only(trace, SinkOps)) = 54 /\ Len(Only(prevTrace, SinkOps)) = 0
  /\ Len(Only(trace, {"pass"})) = 16

----------------------------------------------------------------------------
(* C7: with WAVEON the trace file is opened before the first clock step;   *)
(* every half-cycle writes exactly one sample, right after its evaluation  *)
(* and stamped with the context time, so the stamps are 1, 2, 3, ...; the  *)
(* file is closed after the last functional step and before dut->final(),  *)
(* and nothing is written after that.                                      *)

C7_TraceSink ==
  LET n == Len(trace)
      dumps == Only(trace, {"dump"})
  IN /\ (waveon /\ n > 0) => trace[1].op = "open"
     /\ (waveon /\ n > 0 /\ Last.op = "call") => tfp = "open"
     /\ (n > 0 /\ Last.op = "dump") =>
          /\ tfp = "open"
          /\ trace[n - 1].op = "eval"
          /\ Last.t = trace[n - 1].t /\ Last.t = time
          /\ Last.t = Len(dumps)
          /\ Len(dumps) = Len(Only(trace, {"eval"}))
     /\ (waveon /\ n > 1 /\ trace[n - 1].op = "eval") => Last.op = "dump"
     /\ tfp = "closed" => Last.op \in {"close", "final"}
     /\ (n > 0 /\ Last.op = "close") =>
          /\ trace[n - 1].op \in {"pass", "fail"} /\ trace[n - 1].i = 16
          /\ Len(dumps) = 2 * (10 + 16)
          /\ ~finalized
     /\ (waveon /\ finalized) => tfp = "closed" /\ trace[n - 1].op = "close"

C7_Witness ==
  /\ waveon /\ pc = "done" /\ tfp = "closed" /\ finalized
  /\ Len(Only(trace, {"dump"})) = 52

----------------------------------------------------------------------------
(* C8: two runs of count16, each on a newly constructed context and        *)
(* device, show the same io_out after every evaluation and end with the    *)
(* same verdict.                                                           *)

\* io_out after each evaluation of a history
Outs(s) ==
  LET e == Only(s, {"eval", "xeval"}) IN [n \in 1 .. Len(e) |-> e[n].out]

----------------------------------------------------------------------------
(* C9: every call of clock_step shows the device exactly one rising clock  *)
(* edge and ends with clock at 1; reset is 1 at each of the 10 rising      *)
(* edges of the reset phase and 0 at each of the 16 of the functional      *)
(* phase, where the counter advances by one per clock step.                *)

\* reset before the last operation of the history
PrevReset == IF Len(trace) = 1 THEN xinit.reset ELSE trace[Len(trace) - 1].rst

C9_Edges ==
  LET n == Len(trace)
      rising == SelectSeq(trace, LAMBDA e : e.op = "eval" /\ e.clk = 1)
  IN /\ (n > 0 /\ Last.op = "ret") =>
          LET ev == Only(SubSeq(trace, LastCall, n), {"eval"})
          IN /\ Last.clk = 1 /\ dut.clock = 1
             /\ [m \in 1 .. Len(ev) |-> ev[m].clk] = <<0, 1>>
     /\ pc = "cs_eval" => (dut.clock = 1 <=> dut.clkLast = 0 /\ k = 1)
     /\ (pc = "cs_eval" /\ dut.clock = 1) =>
          dut.reset = IF ret = "reset_next" THEN 1 ELSE 0
     /\ (n > 0 /\ Last.op = "ret" /\ pc = "test_eval") =>
          Last.out = (trace[LastCall].out + 1) % 8
     /\ pc = "done" =>
          /\ Len(SelectSeq(rising, LAMBDA e : e.rst = 1)) = 10
          /\ Len(SelectSeq(rising, LAMBDA e : e.rst = 0)) = 16

\* C9 as written: the above, and reset is only changed while the clock is 1
C9_ResetOnlyWhileClockHigh ==
  C9_Edges /\
  ((trace # << >> /\ Last.op = "rst" /\ Last.rst # PrevReset) => Last.clk = 1)

\* C9 as amended: the above, and reset is only changed outside clock_step:
\* the first time before the first clock step, with the clock as the
\* constructor left it, the second time after a clock step, with the clock
\* at 1
C9_ResetBetweenSteps ==
  C9_Edges /\
  ((trace # << >> /\ Last.op = "rst") =>
     /\ ret = "none"
     /\ Last.rst = 1 =>
          /\ Only(trace, {"call"}) = << >>
          /\ Last.clk = xinit.clock
     /\ Last.rst = 0 =>
          /\ trace[Len(trace) - 1].op = "ret"
          /\ Last.clk = 1)

C9_Witness ==
  /\ pc = "done" /\ xinit.clock = 0 /\ xinit.reset = 0
  /\ trace[Len(trace) - 1].op \in {"pass", "close"}
  /\ Len(Only(trace, {"rst"})) = 2 /\ Len(Only(trace, {"ret"})) = 26

----------------------------------------------------------------------------
(* C10: the evaluation after each functional clock step advances no time   *)
(* and changes neither the inputs nor the register nor io_out; the value   *)
(* compared is the one the device showed after the second half-cycle; the  *)
(* run evaluates twice per reset step and three times per functional step. *)

C10_Shape ==
  LET n == Len(trace)
      ev == Only(trace, {"eval"})
  IN /\ (n > 0 /\ Last.op = "xeval") =>
          LET p == trace[n - 1]
          IN /\ p.op = "ret"
             /\ Last.t = p.t /\ Last.clk = p.clk /\ Last.rst = p.rst
             /\ Last.out = p.out
     /\ (n > 0 /\ Last.op \in {"pass", "fail"}) =>
          /\ trace[n - 1].op = "xeval"
          /\ Last.out = ev[Len(ev)].out /\ Last.t = ev[Len(ev)].t
          /\ Ops(Only(SubSeq(trace, LastCall, n), {"eval", "xeval"}))
               = <<"eval", "eval", "xeval">>
     /\ (n > 0 /\ Last.op = "ret" /\ pc = "reset_next") =>
          Ops(Only(SubSeq(trace, LastCall, n), {"eval", "xeval"}))
            = <<"eval", "eval">>
     /\ pc = "reset_deassert" => Len(Only(trace, {"eval", "xeval"})) = 2 * 10
     /\ pc = "done" => Len(Only(trace, {"eval", "xeval"})) = 2 * 10 + 3 * 16

\* C10: the extra evaluation changes nothing, and the shape above after
\* every step
C10_ExtraEval ==
  [][(pc = "test_eval" => time' = time /\ dut' = dut) /\ C10_Shape']_vars

C10_Witness ==
  /\ pc = "expect" /\ i = 8 /\ Last.op = "xeval"
  /\ dut.io_out = 0 /\ dut.clock = 1 /\ dut.reset = 0

====
